---- MODULE Spec2Model ----
(***************************************************************************)
(* A model of core/src/num/bigrat.rs: the exact rational type BigRat built *)
(* on the arbitrary-precision unsigned integer BigUint.                    *)
(*                                                                         *)
(* A fraction is a record [sign, num, den].  A fallible call returns a     *)
(* record [kind, val, exact, int, sig]:                                    *)
(*   kind   "Ok", "Interrupt" (the cancellation error), "Panic" (the call  *)
(*          unwinds and returns nothing) or the name of a domain error;    *)
(*   val    the value returned when kind = "Ok";                           *)
(*   exact  the exactness flag of pow;                                     *)
(*   int    the cancellation probe as the call leaves it;                  *)
(*   sig    whether a collaborator reported cancellation during the call.  *)
(***************************************************************************)
EXTENDS Integers, Sequences, FiniteSets, TLC

\* ------------------------------------------------------------- bounds
MaxNum == 4
MaxDen == 4
MaxExp == 2
MaxInt == 4
MaxDigit == 3
MaxChainVal == 6
MaxBaseArg == 3
MaxFmtNum == 7
MaxFmtDen == 7
MaxPrec == 2

\* ------------------------------------------------------------- Sign
Sign == {"Positive", "Negative"}

flip(s) == IF s = "Positive" THEN "Negative" ELSE "Positive"

sign_of_product(sa, sb) ==
    IF (sa = "Positive" /\ sb = "Positive") \/ (sa = "Negative" /\ sb = "Negative")
    THEN "Positive"
    ELSE "Negative"

\* ------------------------------------------------------------- BigRat
\* (record fields are written in alphabetical order throughout)
BigRat(s, n, d) == [den |-> d, num |-> n, sign |-> s]

from(i) == BigRat("Positive", i, 1)

neg(self) == BigRat(flip(self.sign), self.num, self.den)

\* The fractions the calls are applied to: either sign tag, zero with either
\* sign, not necessarily in lowest terms, denominator never zero.
Fractions == [den : 1..MaxDen, num : 0..MaxNum, sign : Sign]

\* ------------------------------------------------------------- the probe
\* `int`: the cancellation probe handed to a call.  never = TRUE is
\* crate::interrupt::Never; otherwise `left` collaborator calls complete before
\* the signal is set, and every call after that reports cancellation.
Never == [left |-> 0, never |-> TRUE]

Probes == {Never} \cup [left : 0..MaxInt, never : {FALSE}]

test_int(int) == ~int.never /\ int.left = 0

tick(int) == IF int.never \/ int.left = 0 THEN int ELSE [int EXCEPT !.left = @ - 1]

\* ------------------------------------------------------------- results
R(k, v, e, i, s) ==
    [exact |-> e, int |-> i, kind |-> k, sig |-> s, val |-> v]

Ok(v, i) == R("Ok", v, TRUE, i, FALSE)

Interrupted(i) == R("Interrupt", from(0), FALSE, i, TRUE)

Err(msg, i) == R(msg, from(0), FALSE, i, FALSE)

Panic(i, s) == R("Panic", from(0), FALSE, i, s)

\* `e?`: an Ok result goes on, anything else is returned to the caller as it is.
IsOk(r) == r.kind = "Ok"

\* ------------------------------------------------------------- BigUint
\* The collaborator's operations, by their contract.
RECURSIVE gcd(_, _)
gcd(m, n) == IF n >= 1 THEN gcd(n, m % n) ELSE m

RECURSIVE upow(_, _)
upow(m, n) == IF n = 0 THEN 1 ELSE m * upow(m, n - 1)

RECURSIVE ufactorial(_)
ufactorial(n) == IF n = 0 THEN 1 ELSE n * ufactorial(n - 1)

\* a - b on BigUint: the caller guarantees a >= b; otherwise no value comes back.
usub_ok(m, n) == m >= n

\* ------------------------------------------------------------- add_internal
\* lines 239-256: equal denominators.
add_same_den(self, rhs) ==
    IF rhs.sign = "Negative" /\ self.num < rhs.num
    THEN IF usub_ok(rhs.num, self.num)
         THEN Ok(BigRat("Negative", rhs.num - self.num, self.den), Never)
         ELSE Panic(Never, FALSE)
    ELSE IF rhs.sign = "Positive"
         THEN Ok(BigRat("Positive", self.num + rhs.num, self.den), Never)
         ELSE IF usub_ok(self.num, rhs.num)
              THEN Ok(BigRat("Positive", self.num - rhs.num, self.den), Never)
              ELSE Panic(Never, FALSE)

\* Mutant of add_diff_den: the sign of the subtraction is resolved on the raw
\* numerators, as in the equal-denominator branch, not on the cross-numerators.
add_diff_den_raw_compare(self, rhs) ==
    LET g == gcd(self.den, rhs.den)
        new_denominator == (self.den * rhs.den) \div g
        ca == (self.num * rhs.den) \div g
        cb == (rhs.num * self.den) \div g
    IN  IF rhs.sign = "Negative" /\ self.num < rhs.num
        THEN IF usub_ok(cb, ca)
             THEN Ok(BigRat("Negative", cb - ca, new_denominator), Never)
             ELSE Panic(Never, FALSE)
        ELSE IF rhs.sign = "Positive"
             THEN Ok(BigRat("Positive", ca + cb, new_denominator), Never)
             ELSE IF usub_ok(ca, cb)
                  THEN Ok(BigRat("Positive", ca - cb, new_denominator), Never)
                  ELSE Panic(Never, FALSE)

\* lines 257-280: different denominators.
add_diff_den(self, rhs) ==
    LET g == gcd(self.den, rhs.den)
        new_denominator == (self.den * rhs.den) \div g
        ca == (self.num * rhs.den) \div g
        cb == (rhs.num * self.den) \div g
    IN  IF rhs.sign = "Negative" /\ ca < cb
        THEN IF usub_ok(cb, ca)
             THEN Ok(BigRat("Negative", cb - ca, new_denominator), Never)
             ELSE Panic(Never, FALSE)
        ELSE IF rhs.sign = "Positive"
             THEN Ok(BigRat("Positive", ca + cb, new_denominator), Never)
             ELSE IF usub_ok(ca, cb)
                  THEN Ok(BigRat("Positive", ca - cb, new_denominator), Never)
                  ELSE Panic(Never, FALSE)

\* compute a + b.  Every caller (Add, Sub, cmp) passes the probe Never.
RECURSIVE add_internal(_, _)
add_internal(self, rhs) ==
    IF self.sign = "Negative"
    THEN LET r == add_internal(neg(self), neg(rhs))
         IN  IF IsOk(r) THEN Ok(neg(r.val), Never) ELSE r
    ELSE IF self.den = rhs.den
         THEN add_same_den(self, rhs)
         ELSE add_diff_den(self, rhs)

\* impl Add / impl Sub: add_internal(..).unwrap()
add(self, rhs) == add_internal(self, rhs)

sub(self, rhs) == add_internal(self, neg(rhs))

\* Mutant of cmp: the sign tag is read before the numerator is tested for zero.
cmp_sign_first(self, other) ==
    LET diff == sub(self, other)
    IN  IF ~IsOk(diff) THEN "Panic"
        ELSE IF diff.val.sign = "Negative" THEN "Less"
        ELSE IF diff.val.num = 0 THEN "Equal"
        ELSE "Greater"

\* impl Ord
cmp(self, other) ==
    LET diff == sub(self, other)
    IN  IF ~IsOk(diff) THEN "Panic"
        ELSE IF diff.val.num = 0 THEN "Equal"
        ELSE IF diff.val.sign = "Positive" THEN "Greater"
        ELSE "Less"

\* ------------------------------------------------------------- simplify
\* Mutant of simplify: only the numerator is divided by the gcd.
simplify_num_only(self, int) ==
    IF self.den = 1 THEN Ok(self, int)
    ELSE IF test_int(int) THEN Interrupted(int)
    ELSE LET g == gcd(self.num, self.den)
             i1 == tick(int)
         IN  IF test_int(i1) THEN Interrupted(i1)
             ELSE IF g = 0 THEN Panic(i1, FALSE)
             ELSE LET i2 == tick(i1)
                  IN  IF test_int(i2) THEN Interrupted(i2)
                      ELSE Ok(BigRat(self.sign, self.num \div g, self.den), tick(i2))

simplify(self, int) ==
    IF self.den = 1 THEN Ok(self, int)
    ELSE IF test_int(int) THEN Interrupted(int)                \* BigUint::gcd(..)?
    ELSE LET g == gcd(self.num, self.den)
             i1 == tick(int)
         IN  IF test_int(i1) THEN Interrupted(i1)              \* self.num.div(&gcd)?
             ELSE IF g = 0 THEN Panic(i1, FALSE)               \* division by zero
             ELSE LET i2 == tick(i1)
                  IN  IF test_int(i2) THEN Interrupted(i2)     \* self.den.div(&gcd)?
                      ELSE Ok(BigRat(self.sign, self.num \div g, self.den \div g),
                              tick(i2))

\* ------------------------------------------------------------- mul, div
mul(self, rhs, int) ==
    IF test_int(int) THEN Interrupted(int)                     \* num.mul(..)?
    ELSE LET i1 == tick(int)
         IN  IF test_int(i1) THEN Interrupted(i1)              \* den.mul(..)?
             ELSE Ok(BigRat(sign_of_product(self.sign, rhs.sign),
                            self.num * rhs.num, self.den * rhs.den), tick(i1))

div(self, rhs, int) ==
    IF rhs.num = 0 THEN Err("Attempt to divide by zero", int)
    ELSE IF test_int(int) THEN Interrupted(int)                \* num.mul(&rhs.den)?
    ELSE LET i1 == tick(int)
         IN  IF test_int(i1) THEN Interrupted(i1)              \* den.mul(&rhs.num)?
             ELSE Ok(BigRat(sign_of_product(self.sign, rhs.sign),
                            self.num * rhs.den, self.den * rhs.num), tick(i1))

\* ------------------------------------------------------------- conversions
\* The result is the machine integer in val.num.  BigUint::try_as_usize fails
\* only above usize::MAX, far above every number of this model.
try_as_usize(self, int) ==
    LET s == simplify(self, int)
    IN  IF ~IsOk(s) THEN s
        ELSE IF s.val.den # 1 THEN Err("Cannot convert fraction to integer", s.int)
        ELSE Ok(from(s.val.num), s.int)

\* The double is kept as the quotient num/den it is computed from.
into_f64(self, int) ==
    LET s == simplify(self, int)
    IN  IF ~IsOk(s) THEN Panic(s.int, s.sig)                   \* .unwrap()
        ELSE Ok(s.val, s.int)

\* ------------------------------------------------------------- factorial
factorial(self, int) ==
    LET s == simplify(self, int)
    IN  IF ~IsOk(s) THEN s
        ELSE IF s.val.den # 1
             THEN Err("Factorial is only supported for integers", s.int)
        ELSE IF s.val.sign = "Negative" /\ s.val.num # 0
             THEN Err("Factorial is only supported for positive integers", s.int)
        ELSE IF test_int(s.int) THEN Interrupted(s.int)        \* num.factorial(int)?
        ELSE Ok(BigRat("Positive", ufactorial(s.val.num), s.val.den), tick(s.int))

\* ------------------------------------------------------------- pow
\* A fractional exponent hands pow_res to root_n, whose bisection is outside
\* this model: the result kind "RootN" marks that hand-over.
RECURSIVE pow(_, _, _)
pow(self0, rhs0, int) ==
    LET s == simplify(self0, int)
    IN  IF ~IsOk(s) THEN s
        ELSE LET e == simplify(rhs0, s.int)
             IN  IF ~IsOk(e) THEN e
                 ELSE LET self == s.val
                          rhs == e.val
                      IN  IF rhs.sign = "Negative"
                          THEN LET inv == pow(self, BigRat("Positive", rhs.num, rhs.den), e.int)
                               IN  IF ~IsOk(inv) THEN inv
                                   ELSE LET q == div(from(1), inv.val, inv.int)
                                        IN  IF ~IsOk(q) THEN q
                                            ELSE R("Ok", q.val, inv.exact, q.int, FALSE)
                          ELSE IF test_int(e.int) THEN Interrupted(e.int)   \* pow(num)??
                          ELSE LET i1 == tick(e.int)
                               IN  IF test_int(i1) THEN Interrupted(i1)     \* pow(den)??
                                   ELSE LET pow_res == BigRat("Positive",
                                                              upow(self.num, rhs.num),
                                                              upow(self.den, rhs.num))
                                        IN  IF rhs.den = 1
                                            THEN R("Ok", pow_res, TRUE, tick(i1), FALSE)
                                            ELSE R("RootN", pow_res, FALSE, tick(i1), FALSE)

\* ------------------------------------------------------------- add_digit_in_base
\* digit: u64, base: u8.
add_digit_in_base(self, digit, base, int) ==
    IF test_int(int) THEN Interrupted(int)
    ELSE LET i1 == tick(int)
         IN  IF test_int(i1) THEN Interrupted(i1)
             ELSE Ok(BigRat(self.sign, self.num * base + digit, self.den * base), tick(i1))


\* ------------------------------------------------------------- terminates_in_base
\* The loop of terminates_in_base; the Boolean it returns is in `exact`, the
\* last x in `val`.
RECURSIVE terminates_in_base(_, _, _)
terminates_in_base(x, base, int) ==
    LET m == mul(x, from(base), int)
    IN  IF ~IsOk(m) THEN m
        ELSE LET s == simplify(m.val, m.int)
             IN  IF ~IsOk(s) THEN s
                 ELSE IF s.val.den = x.den
                      THEN R("Ok", s.val, s.val.den = 1, s.int, FALSE)
                      ELSE terminates_in_base(s.val, base, s.int)

\* ------------------------------------------------------------- format
\* The sink f is a sequence of characters.
DigitChars ==
    << "0", "1", "2", "3", "4", "5", "6", "7", "8", "9", "a", "b", "c", "d", "e",
       "f", "g", "h", "i", "j", "k", "l", "m", "n", "o", "p", "q", "r", "s", "t",
       "u", "v", "w", "x", "y", "z" >>

DigitChar(d) == DigitChars[d + 1]

\* BigUint::format: the digits of n in the base, most significant first.
RECURSIVE format_uint(_, _)
format_uint(n, base) ==
    IF n < base THEN <<DigitChar(n)>>
    ELSE Append(format_uint(n \div base, base), DigitChar(n % base))

\* FormattingStyle: <<name, n>>, n the precision of ApproxFloat(n).
Styles ==
    {<<"ExactFraction", 0>>, <<"ExactFloat", 0>>, <<"ExactFloatWithFractionFallback", 0>>}
        \cup {<<"ApproxFloat", n>> : n \in 0..MaxPrec}

\* lines 385-391, 407-412, 449-454: the mark of an imaginary component.
imag_suffix(base, imag) ==
    IF imag THEN (IF base >= 19 THEN <<" ", "i">> ELSE <<"i">>) ELSE <<>>

\* What the part of format before the digit loop hands on: kind "Ok" (format
\* returns Ok(Ok(exact))), "Interrupt", or "Digits" (format_trailing_digits
\* is entered with numerator, denominator and max_digits; max_digits is <<>>
\* for None and <<n>> for Some(n)).
FHead(k, w, e, i, n, d, m) ==
    [kind |-> k, f |-> w, exact |-> e, int |-> i,
     numerator |-> n, denominator |-> d, max_digits |-> m]

\* lines 378-392 and 400-413: the sign and the numerator.
format_num(x, negative, base, imag, int) ==
    LET sgn == IF negative THEN <<"-">> ELSE <<>>
    IN  IF imag /\ base = 10 /\ x.num = 1
        THEN FHead("Ok", sgn \o <<"i">>, TRUE, int, 0, 1, <<>>)
        ELSE IF test_int(int)                                   \* x.num.format(..)?
             THEN FHead("Interrupt", sgn, FALSE, int, 0, 1, <<>>)
             ELSE FHead("Ok", sgn \o format_uint(x.num, base) \o imag_suffix(base, imag),
                       TRUE, tick(int), 0, 1, <<>>)

\* Mutant of is_fraction: the fallback to a fraction is forgotten.
is_fraction_no_fallback(style, terminating) ==
    style[1] = "ExactFraction"

\* lines 397-398
is_fraction(style, terminating) ==
    \/ style[1] = "ExactFraction"
    \/ (style[1] = "ExactFloatWithFractionFallback" /\ ~terminating)

\* lines 423-431
num_trailing_digits_to_print(style, terminating) ==
    IF \/ style[1] = "ExactFloat"
       \/ (style[1] = "ExactFloatWithFractionFallback" /\ terminating)
    THEN <<>>
    ELSE IF style[1] = "ApproxFloat" THEN <<style[2]>>
    ELSE <<10>>

\* lines 419-448: the decimal form up to the call of format_trailing_digits.
format_decimal(x, negative, base, style, terminating, int) ==
    LET sgn == IF negative THEN <<"-">> ELSE <<>>
        md == num_trailing_digits_to_print(style, terminating)
    IN  IF test_int(int)                                        \* x.num.div(&x.den)?
        THEN FHead("Interrupt", sgn, FALSE, int, 0, 1, <<>>)
        ELSE LET integer_part == x.num \div x.den
                 i1 == tick(int)
             IN  IF test_int(i1)                                \* integer_part.format(..)?
                 THEN FHead("Interrupt", sgn, FALSE, i1, 0, 1, <<>>)
                 ELSE LET remaining_fraction == sub(x, from(integer_part))
                      IN  IF ~IsOk(remaining_fraction)
                          THEN FHead("Panic", sgn, FALSE, i1, 0, 1, <<>>)
                          ELSE FHead("Digits",
                                    sgn \o format_uint(integer_part, base) \o <<".">>,
                                    FALSE, tick(i1),
                                    remaining_fraction.val.num,
                                    remaining_fraction.val.den, md)

\* lines 362-448
format_head(self, base, style, imag, int) ==
    LET s == simplify(self, int)
    IN  IF ~IsOk(s) THEN FHead(s.kind, <<>>, FALSE, s.int, 0, 1, <<>>)
        ELSE LET negative == s.val.sign = "Negative" /\ cmp(s.val, from(0)) # "Equal"
                 x == IF negative THEN BigRat("Positive", s.val.num, s.val.den) ELSE s.val
             IN  IF x.den = 1
                 THEN format_num(x, negative, base, imag, s.int)
                 ELSE LET t == terminates_in_base(x, base, s.int)
                      IN  IF ~IsOk(t) THEN FHead(t.kind, <<>>, FALSE, t.int, 0, 1, <<>>)
                          ELSE IF is_fraction(style, t.exact)
                          THEN LET w == format_num(x, negative, base, imag, t.int)
                               IN  IF w.kind # "Ok" THEN w
                                   ELSE IF test_int(w.int)      \* x.den.format(..)?
                                   THEN FHead("Interrupt", w.f \o <<"/">>, FALSE, w.int,
                                             0, 1, <<>>)
                                   ELSE FHead("Ok",
                                             w.f \o <<"/">> \o format_uint(x.den, base),
                                             TRUE, tick(w.int), 0, 1, <<>>)
                          ELSE format_decimal(x, negative, base, style, t.exact, t.int)

\* ============================================================= state
VARIABLES
    op,     \* the operation last called ("init" before the first call)
    a,      \* its receiver (self)
    b,      \* its argument (rhs, other, the exponent)
    int,    \* the probe it was called with
    res,    \* what it returned
    ord,    \* the Ordering cmp returned ("none" for every other call)
    \* format and format_trailing_digits
    pc,                         \* "idle", "format", "digits" (in the loop), "done"
    base,                       \* base.base_as_u8()
    style,
    imag,
    f,                          \* the characters written to the sink
    numerator,
    denominator,
    max_digits,
    output,
    pos,
    remainder_occurs_at_pos,
    x                           \* the loop variable of terminates_in_base

fvars == <<pc, base, style, imag, f, numerator, denominator, max_digits, output, pos,
           remainder_occurs_at_pos, x>>

vars == <<op, a, b, int, res, ord, fvars>>

\* No format call is in progress.
FormatIdle ==
    /\ pc = "idle"
    /\ base = 10
    /\ style = <<"ExactFraction", 0>>
    /\ imag = FALSE
    /\ f = <<>>
    /\ numerator = 0
    /\ denominator = 1
    /\ max_digits = <<>>
    /\ output = <<>>
    /\ pos = 0
    /\ remainder_occurs_at_pos = <<>>
    /\ x = from(0)

\* Integer-valued exponents, in and out of lowest terms, of either sign.
Exponents == {BigRat(s, k * d, d) : s \in Sign, k \in 0..MaxExp, d \in 1..2}

\* The inputs of one call are drawn here; the call actions apply an operation
\* to them.
Init ==
    /\ op = "init"
    /\ a \in Fractions
    /\ b \in Fractions \cup Exponents
    /\ int \in Probes
    /\ res = Ok(from(0), Never)
    /\ ord = "none"
    /\ FormatIdle

Call(name, result, ordering) ==
    /\ op = "init"
    /\ op' = name
    /\ res' = result
    /\ ord' = ordering
    /\ UNCHANGED <<a, b, int, fvars>>

\* cmp, add, sub and neg take no probe: the operators run under Never.
CallCmp == b \in Fractions /\ Call("cmp", Ok(from(0), Never), cmp(a, b))

CallAdd == b \in Fractions /\ Call("add", add(a, b), "none")

CallSub == b \in Fractions /\ Call("sub", sub(a, b), "none")

CallNeg == Call("neg", Ok(neg(a), Never), "none")

CallSimplify == Call("simplify", simplify(a, int), "none")

CallMul == b \in Fractions /\ Call("mul", mul(a, b, int), "none")

CallDiv == b \in Fractions /\ Call("div", div(a, b, int), "none")

CallPow == b \in Exponents /\ Call("pow", pow(a, b, int), "none")

CallFactorial == Call("factorial", factorial(a, int), "none")

CallTryAsUsize == Call("try_as_usize", try_as_usize(a, int), "none")

CallIntoF64 == Call("into_f64", into_f64(a, int), "none")

Next ==
    \/ CallCmp
    \/ CallAdd
    \/ CallSub
    \/ CallNeg
    \/ CallSimplify
    \/ CallMul
    \/ CallDiv
    \/ CallPow
    \/ CallFactorial
    \/ CallTryAsUsize
    \/ CallIntoF64

Spec == Init /\ [][Next]_vars

\* ============================================================= claims
\* The rational value of a fraction, as a signed numerator over its denominator.
SNum(r) == IF r.sign = "Negative" THEN 0 - r.num ELSE r.num

ValEq(r, t) == SNum(r) * t.den = SNum(t) * r.den

ValLt(r, t) == SNum(r) * t.den < SNum(t) * r.den

Reverse(o) == IF o = "Less" THEN "Greater" ELSE IF o = "Greater" THEN "Less" ELSE o

\* C1: cmp(a, b) is the ordering of the rational values of a and b: Equal iff
\* the numerator of a - b is zero, Less iff a is strictly smaller, Greater iff
\* strictly larger; and cmp(b, a) is the reverse of cmp(a, b).
CmpIsValueOrder ==
    op = "cmp" =>
        /\ ord \in {"Less", "Equal", "Greater"}
        /\ (ord = "Equal") <=> ValEq(a, b)
        /\ (ord = "Equal") <=> (IsOk(sub(a, b)) /\ sub(a, b).val.num = 0)
        /\ (ord = "Less") <=> ValLt(a, b)
        /\ (ord = "Greater") <=> ValLt(b, a)
        /\ cmp(b, a) = Reverse(ord)

\* C1 witness: a negative fraction compared with a zero stored as -0, with
\* different denominators and the left one not in lowest terms.
CmpWitness ==
    /\ op = "cmp"
    /\ a = BigRat("Negative", 2, 4)
    /\ b = BigRat("Negative", 0, 3)
    /\ ord = "Less"

\* C2: add_internal returns the exact rational sum, in all four sign
\* combinations, and no unsigned subtraction underflows (the call never
\* panics); a + b is value-equal to b + a and a - a is zero.
AddIsExactSum ==
    /\ op = "add" =>
        /\ IsOk(res)
        /\ res.val.den >= 1
        /\ SNum(res.val) * a.den * b.den = (SNum(a) * b.den + SNum(b) * a.den) * res.val.den
        /\ IsOk(add(b, a)) /\ ValEq(add(b, a).val, res.val)
    /\ op = "sub" =>
        /\ IsOk(res)
        /\ res.val.den >= 1
        /\ SNum(res.val) * a.den * b.den = (SNum(a) * b.den - SNum(b) * a.den) * res.val.den
        /\ (ValEq(a, b) => res.val.num = 0)

\* C2 witness: a negative left operand and a positive right operand of larger
\* magnitude with a different denominator: the recursion through -((-a)+(-b)),
\* the gcd branch and the b - a subtraction all act.
AddWitness ==
    /\ op = "add"
    /\ a = BigRat("Negative", 1, 4)
    /\ b = BigRat("Positive", 3, 2)
    /\ res.kind = "Ok"
    /\ res.val = BigRat("Positive", 5, 4)

\* C3: simplify(a) is value-equal to a, keeps the sign tag, has a denominator
\* of at least 1 coprime with the numerator; a zero numerator gives 0/1.
SimplifyLowestTerms ==
    (op = "simplify" /\ a.den # 0 /\ ~res.sig) =>
        /\ res.kind = "Ok"
        /\ ValEq(res.val, a)
        /\ res.val.sign = a.sign
        /\ res.val.den >= 1
        /\ \A d \in 2..res.val.den :
               ~(res.val.num % d = 0 /\ res.val.den % d = 0)
        /\ (a.num = 0 => (res.val.num = 0 /\ res.val.den = 1))

\* C3 witness: 2/4 with the negative tag is reduced to -1/2.
SimplifyWitness ==
    /\ op = "simplify"
    /\ a = BigRat("Negative", 2, 4)
    /\ res.kind = "Ok"
    /\ res.val = BigRat("Negative", 1, 2)


\* C8: a call during which a collaborator reports cancellation returns the
\* cancellation error: it does not panic and returns no value.
CancellationPropagates ==
    (op # "init" /\ res.sig) => res.kind = "Interrupt"

\* The same statement for every modelled call but into_f64.
CancellationPropagatesButIntoF64 ==
    (op \notin {"init", "into_f64"} /\ res.sig) => res.kind = "Interrupt"

RECURSIVE IntPow(_, _)
IntPow(m, n) == IF n = 0 THEN 1 ELSE m * IntPow(m, n - 1)

\* The integer an integer-valued exponent stands for.
ExpOf(e) == e.num \div e.den

\* C9: for a non-negative integer exponent n, pow(base, n) is exact and
\* value-equal to base raised to the n-th power.
PowIsExactPower ==
    (op = "pow" /\ int = Never /\ (b.sign = "Positive" \/ b.num = 0)) =>
        /\ res.kind = "Ok"
        /\ res.exact
        /\ SNum(res.val) * IntPow(a.den, ExpOf(b))
               = IntPow(SNum(a), ExpOf(b)) * res.val.den

\* C10: try_as_usize returns Ok(k) only for an input value-equal to the
\* non-negative integer k, and an error for every other input.
TryAsUsizeNonNegativeInteger ==
    (op = "try_as_usize" /\ int = Never) =>
        /\ (res.kind = "Ok" => ValEq(a, from(res.val.num)))
        /\ ((a.num % a.den # 0 \/ (a.sign = "Negative" /\ a.num # 0))
               => res.kind # "Ok")


\* ============================================================= SpecChain
\* A fraction held by the caller (in `a`) and rewritten by a sequence of the
\* value-producing operations; `b` is the argument of the last one and `res`
\* what it returned.  from_f64 and root_n need numbers beyond TLC's 32-bit
\* integers (a denominator of u32::MAX, thirty halvings) and are left out.
ChainArgs == {r \in Fractions : r.num <= 2 /\ r.den <= 2}

InChain(r) == r.num <= MaxChainVal /\ r.den <= MaxChainVal

InitChain ==
    /\ op = "init"
    /\ a = from(0)
    /\ b = from(0)
    /\ int = Never
    /\ res = Ok(from(0), Never)
    /\ ord = "none"
    /\ FormatIdle

\* A panic unwinds the caller: nothing is called after it.  A call that
\* returns an error leaves the held fraction as it was.
Store(name, rhs, result) ==
    /\ res.kind # "Panic"
    /\ InChain(result.val)
    /\ op' = name
    /\ b' = rhs
    /\ res' = result
    /\ a' = IF IsOk(result) THEN result.val ELSE a
    /\ UNCHANGED <<int, ord, fvars>>

StoreFrom == \E i \in 0..MaxChainVal : Store("from", from(i), Ok(from(i), Never))

StoreNeg == Store("neg", from(0), Ok(neg(a), Never))

StoreAdd == \E q \in ChainArgs : Store("add", q, add(a, q))

StoreSub == \E q \in ChainArgs : Store("sub", q, sub(a, q))

StoreMul == \E q \in ChainArgs : Store("mul", q, mul(a, q, Never))

StoreDiv == \E q \in ChainArgs : Store("div", q, div(a, q, Never))

StoreSimplify == Store("simplify", from(0), simplify(a, Never))

StorePow == \E q \in Exponents : Store("pow", q, pow(a, q, Never))

StoreFactorial == Store("factorial", from(0), factorial(a, Never))

\* add_digit_in_base(&mut self, digit: u64, base: u8, ..): the digit and the
\* base are kept in b.num and b.den.
StoreAddDigit ==
    \E digit \in 0..MaxDigit, radix \in 0..MaxBaseArg :
        Store("add_digit_in_base", [den |-> radix, num |-> digit, sign |-> "Positive"],
              add_digit_in_base(a, digit, radix, Never))

NextChain ==
    \/ StoreFrom
    \/ StoreNeg
    \/ StoreAdd
    \/ StoreSub
    \/ StoreMul
    \/ StoreDiv
    \/ StoreSimplify
    \/ StorePow
    \/ StoreFactorial
    \/ StoreAddDigit

SpecChain == InitChain /\ [][NextChain]_vars

\* C4: after any sequence of the value-producing operations every fraction
\* returned or held has a non-zero denominator, and div returns the
\* division-by-zero error exactly when the divisor's numerator is zero.
DenominatorNeverZero ==
    /\ a.den # 0
    /\ (IsOk(res) => res.val.den # 0)
    /\ (op = "div" => ((res.kind = "Attempt to divide by zero") <=> (b.num = 0)))

\* ============================================================= SpecFormat
\* One call of format: `a` is self, `int` the probe as the call goes on, `res`
\* what format returns (res.exact is the Boolean of Ok(Ok(exact))).
FormatInputs == [den : 1..MaxFmtDen, num : 0..MaxFmtNum, sign : Sign]

Bases == {2, 10, 20}

\* No digit loop of the model that returns runs longer than this: it caps the
\* loop that never returns.
MaxPos == MaxFmtDen + MaxPrec + 2

InitFormat ==
    /\ op = "format"
    /\ a \in FormatInputs
    /\ b = from(0)
    /\ int \in Probes
    /\ res = Ok(from(0), Never)
    /\ ord = "none"
    /\ pc = "format"
    /\ base \in Bases
    /\ style \in Styles
    /\ imag \in BOOLEAN
    /\ f = <<>>
    /\ numerator = 0
    /\ denominator = 1
    /\ max_digits = <<>>
    /\ output = <<>>
    /\ pos = 0
    /\ remainder_occurs_at_pos = <<>>
    /\ x = from(0)

\* format returns: lines 449-455 after the digits, or an early return.
Return(kind, written, exact, probe, sig) ==
    /\ pc' = "done"
    /\ f' = written
    /\ int' = probe
    /\ res' = R(kind, from(0), exact, probe, sig)

\* format, from its entry to its return or to the entry of the digit loop.
Format ==
    /\ pc = "format"
    /\ \E h \in {format_head(a, base, style, imag, int)} :
           IF h.kind = "Digits"
           THEN /\ pc' = "digits"
                /\ f' = h.f
                /\ int' = h.int
                /\ numerator' = h.numerator
                /\ denominator' = h.denominator
                /\ max_digits' = h.max_digits
                /\ UNCHANGED res
           ELSE /\ Return(h.kind, h.f, h.exact, h.int, h.kind = "Interrupt")
                /\ UNCHANGED <<numerator, denominator, max_digits>>
    /\ UNCHANGED <<op, a, b, ord, x, base, style, imag, output, pos, remainder_occurs_at_pos>>

\* Mutant of insert: the position is recorded after it was incremented.
insert_next_pos(map, key, value) == (key :> value + 1) @@ map

\* line 476: HashMap::insert, which replaces the position of a key it holds.
insert(map, key, value) == (key :> value) @@ map

\* line 474: the condition of the while loop.
LoopCondition ==
    max_digits # <<>> \/ numerator \notin DOMAIN remainder_occurs_at_pos

\* The probe after the five fallible calls of one iteration (test_int, mul,
\* div, mul, digit.format).
tick5(i) == tick(tick(tick(tick(tick(i)))))

\* lines 474-489: one iteration of the loop of format_trailing_digits.
TrailingDigit ==
    /\ pc = "digits"
    /\ LoopCondition
    /\ pos < MaxPos
    /\ IF test_int(int) \/ test_int(tick(int)) \/ test_int(tick(tick(int)))
          \/ test_int(tick(tick(tick(int)))) \/ test_int(tick(tick(tick(tick(int)))))
       THEN /\ Return("Interrupt", f, FALSE, tick5(int), TRUE)
            /\ UNCHANGED <<numerator, output, pos, remainder_occurs_at_pos>>
       ELSE LET bnum == base * numerator
                digit == bnum \div denominator
                next_numerator == bnum - digit * denominator
                next_output == output \o format_uint(digit, base)
                next_pos == pos + 1
            IN  /\ remainder_occurs_at_pos' =
                       insert(remainder_occurs_at_pos, numerator, pos)
                /\ numerator' = next_numerator
                /\ output' = next_output
                /\ pos' = next_pos
                /\ IF next_numerator = 0 \/ max_digits = <<next_pos>>
                   THEN Return("Ok", f \o next_output \o imag_suffix(base, imag),
                               next_numerator = 0, tick5(int), FALSE)
                   ELSE /\ pc' = "digits"
                        /\ int' = tick5(int)
                        /\ UNCHANGED <<f, res>>
    /\ UNCHANGED <<op, a, b, ord, x, base, style, imag, denominator, max_digits>>

\* lines 490-494: the loop is left with a remainder seen before.
TrailingCycle ==
    /\ pc = "digits"
    /\ ~LoopCondition
    /\ IF numerator \notin DOMAIN remainder_occurs_at_pos
       THEN Return("Panic", f, FALSE, int, FALSE)
       ELSE LET location == remainder_occurs_at_pos[numerator]
                pre == SubSeq(output, 1, location)
                rep == SubSeq(output, location + 1, Len(output))
            IN  Return("Ok",
                       f \o pre \o <<"(">> \o rep \o <<")">> \o imag_suffix(base, imag),
                       TRUE, int, FALSE)
    /\ UNCHANGED <<op, a, b, ord, x, base, style, imag, numerator, denominator, max_digits,
                   output, pos, remainder_occurs_at_pos>>

NextFormat ==
    \/ Format
    \/ TrailingDigit
    \/ TrailingCycle

SpecFormat == InitFormat /\ [][NextFormat]_vars


\* ------------------------------------------------------------- format claims
\* The characters written after the decimal point, without the mark of an
\* imaginary component.
DotAt == CHOOSE i \in 1..Len(f) : f[i] = "."

FracText == SubSeq(f, DotAt + 1, Len(f) - Len(imag_suffix(base, imag)))

\* Long division of the fractional part of |a|, from the value alone: the
\* remainder after k digits and the k-th digit.
RECURSIVE RemAt(_)
RemAt(k) == IF k = 0 THEN a.num % a.den ELSE (RemAt(k - 1) * base) % a.den

DigitAt(k) == (RemAt(k - 1) * base) \div a.den

TrueDigits(from_k, to_k) == [i \in 1..(to_k - from_k + 1) |-> DigitChar(DigitAt(from_k + i - 1))]

\* The expansion of a in the base is finite.
Terminates == \E k \in 0..a.den : RemAt(k) = 0

\* The digit loop ran with the probe never signalling and format returned.
DigitsReturned == pc = "done" /\ pos > 0 /\ res.kind # "Interrupt"

\* C5: a non-integer fraction formatted with ApproxFloat(n) has at most n
\* digits after the decimal point, for every n >= 0.
ApproxFloatLimitsDigits ==
    (DigitsReturned /\ style[1] = "ApproxFloat") => Len(FracText) <= style[2]

\* The same statement for n >= 1.
ApproxFloatLimitsDigitsFromOne ==
    (DigitsReturned /\ style[1] = "ApproxFloat" /\ style[2] >= 1) =>
        /\ Len(FracText) <= style[2]
        /\ FracText = TrueDigits(1, Len(FracText))

OneThird == a = BigRat("Positive", 1, 3) /\ base = 10 /\ ~imag

\* C6 as stated: 1/3 in base 10 with ExactFloatWithFractionFallback is written
\* "0.(3)", exact; a fraction that does not terminate is written with its
\* repeating part in parentheses.
FallbackWritesRepeatingPart ==
    (pc = "done" /\ res.kind = "Ok" /\ style[1] = "ExactFloatWithFractionFallback"
        /\ ~Terminates) =>
        /\ res.exact
        /\ \E i \in 1..Len(f) : f[i] = "("
        /\ (OneThird => f = <<"0", ".", "(", "3", ")">>)

\* C6 amended: a fraction that does not terminate in the base, formatted with
\* ExactFloatWithFractionFallback, is written as numerator/denominator with no
\* positional digits, exact; 1/3 in base 10 is written "1/3".  "0.(3)" is
\* what ExactFloat writes for it.
FallbackWritesFraction ==
    /\ (pc = "done" /\ res.kind = "Ok" /\ style[1] = "ExactFloatWithFractionFallback"
           /\ ~Terminates) =>
           /\ res.exact
           /\ \E i \in 1..Len(f) : f[i] = "/"
           /\ \A i \in 1..Len(f) : f[i] \notin {".", "(", ")"}
           /\ (OneThird => f = <<"1", "/", "3">>)
    /\ (pc = "done" /\ res.kind = "Ok" /\ style[1] = "ExactFloat" /\ OneThird) =>
           (res.exact /\ f = <<"0", ".", "(", "3", ")">>)

\* C6 witness: 1/3 was formatted in base 10 with the fallback style.
FallbackWitness ==
    /\ pc = "done"
    /\ OneThird
    /\ style[1] = "ExactFloatWithFractionFallback"
    /\ int = Never
    /\ res.kind = "Ok"
    /\ f = <<"1", "/", "3">>

\* The position at which the remainder the loop stopped on was first seen.
FirstSeen == CHOOSE k \in 0..pos : RemAt(k) = RemAt(pos) /\ \A j \in 0..(k - 1) : RemAt(j) # RemAt(pos)

\* C7: with no digit limit the loop is left without returning only on a
\* remainder that is a key of the map, so the lookup succeeds (no panic); the
\* output is prefix(cycle), the prefix being the digits before the position
\* where that remainder was first seen; exact is reported; a remainder of zero
\* writes the plain digits, exact.
UnlimitedDigitsPrefixCycle ==
    /\ res.kind # "Panic"
    /\ (pc = "digits" /\ max_digits = <<>> /\ ~LoopCondition) =>
           numerator \in DOMAIN remainder_occurs_at_pos
    /\ (DigitsReturned /\ max_digits = <<>>) =>
           /\ res.kind = "Ok"
           /\ res.exact
           /\ IF numerator = 0
              THEN /\ RemAt(pos) = 0
                   /\ FracText = TrueDigits(1, pos)
              ELSE /\ FirstSeen < pos
                   /\ remainder_occurs_at_pos[numerator] = FirstSeen
                   /\ FracText = TrueDigits(1, FirstSeen) \o <<"(">>
                                     \o TrueDigits(FirstSeen + 1, pos) \o <<")">>

\* C7 witness: 1/6 in base 10 with ExactFloat is written 0.1(6).
PrefixCycleWitness ==
    /\ pc = "done"
    /\ a = BigRat("Positive", 1, 6)
    /\ base = 10
    /\ ~imag
    /\ max_digits = <<>>
    /\ res.kind = "Ok"
    /\ f = <<"0", ".", "1", "(", "6", ")">>

----------------------------------------------------------------------------
\* terminates_in_base, one loop iteration per step (lines 306-327).

MaxTermNum == 5
MaxTermDen == 12
MaxTermBase == 12

\* What format hands to terminates_in_base at line 396: a simplified value
\* that is not an integer, its sign made positive (lines 370-377).
TermInputs ==
    {r \in [den : 2..MaxTermDen, num : 1..MaxTermNum, sign : {"Positive"}] :
        gcd(r.num, r.den) = 1}

TermBases == 2..MaxTermBase

InitTerm ==
    /\ op = "terminates_in_base"
    /\ a \in TermInputs
    /\ b = from(0)
    /\ int \in Probes
    /\ res = Ok(from(0), Never)
    /\ ord = "none"
    /\ pc = "loop"
    /\ base \in TermBases
    /\ style = <<"ExactFraction", 0>>
    /\ imag = FALSE
    /\ f = <<>>
    /\ numerator = 0
    /\ denominator = 1
    /\ max_digits = <<>>
    /\ output = <<>>
    /\ pos = 0
    /\ remainder_occurs_at_pos = <<>>
    /\ x = a

\* A loop test that stops only at the unit denominator.
stops_at_one(new_den, old_den) == new_den = 1

\* Line 322: the loop stops when the denominator did not change.
stops(new_den, old_den) == new_den = old_den

\* Lines 318-325: one iteration, x = x.mul(&base, int)?.simplify(int)?.
TermIterate ==
    /\ pc = "loop"
    /\ LET old_den == x.den
           m == mul(x, from(base), int)
           s == IF IsOk(m) THEN simplify(m.val, m.int) ELSE m
       IN  IF ~IsOk(s)
           THEN /\ pc' = "done"
                /\ res' = R(s.kind, from(0), FALSE, s.int, s.sig)
                /\ int' = s.int
                /\ UNCHANGED x
           ELSE /\ x' = s.val
                /\ int' = s.int
                /\ pc' = IF stops(s.val.den, old_den) THEN "break" ELSE "loop"
                /\ UNCHANGED res
    /\ UNCHANGED <<op, a, b, ord, base, style, imag, f, numerator, denominator,
                   max_digits, output, pos, remainder_occurs_at_pos>>

\* Line 326: Ok(x.den == 1.into()).
TermReturn ==
    /\ pc = "break"
    /\ pc' = "done"
    /\ res' = R("Ok", x, x.den = 1, int, FALSE)
    /\ UNCHANGED <<op, a, b, int, ord, x, base, style, imag, f, numerator, denominator,
                   max_digits, output, pos, remainder_occurs_at_pos>>

NextTerm ==
    \/ TermIterate
    \/ TermReturn

\* The loop is sequential code: an iteration that can run does run.
SpecTerm == InitTerm /\ [][NextTerm]_vars /\ WF_vars(NextTerm)

\* base^k modulo the denominator of the input, by running products.
RECURSIVE BasePowerMod(_)
BasePowerMod(k) ==
    IF k = 0 THEN 1 % a.den ELSE (BasePowerMod(k - 1) * base) % a.den

\* The denominator of the input divides some power of the base.  A power that
\* is divisible at all is divisible by the exponent a.den at the latest.
DividesPower == \E k \in 0..a.den : BasePowerMod(k) = 0

\* C11: for a fraction in lowest terms with denominator > 1 and a base >= 2,
\* the loop of terminates_in_base finishes: every iteration that does not stop
\* the loop strictly decreases the denominator, the call returns, and without
\* cancellation it returns Ok.  The value returned is true exactly when the
\* denominator divides some power of the base, which is exactly when the
\* expansion of the fraction in that base reaches remainder zero.
TerminatesInBaseLoop ==
    /\ [](/\ res.kind # "Panic"
          /\ (pc = "done" /\ res.kind = "Ok") =>
                 /\ res.exact <=> DividesPower
                 /\ res.exact <=> Terminates
          /\ (pc = "done" /\ a.den > 1 /\ int = Never) => res.kind = "Ok")
    /\ [][(pc = "loop" /\ pc' = "loop") => x'.den < x.den]_vars
    /\ <>(pc = "done")

\* C11 witness: 1/4 in base 10 goes 10/4 = 5/2, 50/2 = 25/1, 250/1, the
\* denominators 4, 2, 1, 1, and returns true.
TerminatesInBaseWitness ==
    /\ pc = "done"
    /\ a = BigRat("Positive", 1, 4)
    /\ base = 10
    /\ res.kind = "Ok"
    /\ res.exact
    /\ x = BigRat("Positive", 250, 1)

----------------------------------------------------------------------------
\* The digit loop of format_trailing_digits with the probe never signalling.

\* The digits of the base, as written.
BaseDigits == {DigitChar(d) : d \in 0..(base - 1)}

\* The loop is still running although one of the conditions that stop it was
\* met: the remainder is zero after a digit, or more digits than were asked
\* for were produced, or (no limit) more digits than there are remainders
\* below the denominator, so that one recurred.
RunsPastStop ==
    /\ pc = "digits"
    /\ \/ pos > 0 /\ numerator = 0
       \/ max_digits # <<>> /\ pos > max_digits[1]
       \/ max_digits = <<>> /\ pos > denominator

\* C12: with the cancellation signal never set, format_trailing_digits
\* returns for every num < den, base >= 2 and max_digits (None or Some(n),
\* n >= 0): it stops when the remainder reaches zero, when the requested digit
\* count is reached or when a remainder recurs, so it is never found running
\* past one of these; throughout the loop the remainder is strictly below the
\* denominator and each produced digit is strictly below the base.
TrailingDigitsReturn ==
    int = Never =>
        /\ res.kind \notin {"Interrupt", "Panic"}
        /\ pc = "digits" => numerator < denominator
        /\ pc \in {"digits", "done"} =>
               /\ Len(output) = pos
               /\ \A i \in 1..Len(output) : output[i] \in BaseDigits
        /\ ~RunsPastStop
        /\ DigitsReturned =>
               \/ numerator = 0
               \/ max_digits = <<pos>>
               \/ max_digits = <<>> /\ numerator \in DOMAIN remainder_occurs_at_pos

====
